---- MODULE Spec2Model ----
(***************************************************************************)
(* Model of terraform-provider-kubeseal: the provider's resource list, the *)
(* single-value resource kubeseal_raw (raw_resource.go) and the multi-     *)
(* value resource kubeseal_raws (raws_resource.go).                        *)
(*                                                                         *)
(* One Terraform resource instance is followed through its lifecycle:      *)
(* ValidateConfig, Create, Update, Read, Delete.  Each handler is one      *)
(* action; the calls it makes are recorded, in order, in the trace of the  *)
(* response so that ordering properties can be stated over it.             *)
(***************************************************************************)
EXTENDS Integers, Sequences, FiniteSets, TLC

VARIABLES
    now,        \* the latest reading of the wall clock, time.Now()
    rand,       \* number of draws taken so far from crypto/rand.Reader
    planned,    \* the validated plan waiting to be applied (NoPlan if none)
    tfstate,    \* the state stored for the resource instance (NullState if none)
    last,       \* the last framework call: operation, resource, request, response
    resources   \* what the provider's Resources() returned (<<>> until asked)

vars == <<now, rand, planned, tfstate, last, resources>>

----------------------------------------------------------------------------
(* Bounds of the model *)

MaxTime == 2          \* the clock runs over 0..MaxTime
MaxDraws == 2         \* the random source is drawn from at most this many times
MinScope == 1         \* scopes range over -MinScope .. MaxScope
MaxScope == 3
SecondTicks == 2      \* clock ticks per second  (resolution of time.RFC850)
DayTicks == 2         \* clock ticks per day     (resolution of "January 2, 2006")

----------------------------------------------------------------------------
(* Values of the terraform-plugin-framework types *)

Null == "<null>"                  \* a null types.String element
Unknown == [known |-> FALSE]      \* a computed attribute not yet known
Known(v) == [known |-> TRUE, val |-> v]
NullState == [written |-> FALSE]
NoPlan == [planned |-> FALSE]

NoErr == [msg |-> "nil", found |-> "", date |-> -1, item |-> ""]
Err(m) == [msg |-> m, found |-> "", date |-> -1, item |-> ""]

ErrorDiag(summary, key, err) ==
    [severity |-> "error", summary |-> summary, key |-> key, err |-> err]
HasError(diags) == \E i \in 1..Len(diags) : diags[i].severity = "error"

Event(call, item, label, pt) == [call |-> call, item |-> item, label |-> label, pt |-> pt]

----------------------------------------------------------------------------
(* Public-key bundles: the PEM text of the "pubkey" attribute *)

NotAfterTimes == {1}
Certs == [keyType : {"RSA", "ECDSA"}, notAfter : NotAfterTimes]
PubKeys ==
    {[pem |-> "garbage", certs |-> <<>>]}
    \cup {[pem |-> "certificates", certs |-> <<c>>] : c \in Certs}
    \cup {[pem |-> "certificates",
           certs |-> <<[keyType |-> "RSA", notAfter |-> n],
                       [keyType |-> "ECDSA", notAfter |-> n]>>] : n \in NotAfterTimes}

\* cert.ParseCertsPEM: the certificates of the PEM text, an error when the
\* text holds none.
ParseCertsPEM(data) ==
    IF data.pem = "certificates" /\ Len(data.certs) > 0
    THEN [certs |-> data.certs, err |-> NoErr]
    ELSE [certs |-> <<>>, err |-> Err("data does not contain any valid RSA or ECDSA certificates")]

\* NotAfter.Format("January 2, 2006"): the day of the instant.
FormatDate(t) == t \div DayTicks

\* time.Now().Format(time.RFC850): the instant to the second.
FormatRFC850(t) == t \div SecondTicks

\* a.After(b)
After(a, b) == a > b

\* ParseKey with the expiry test turned into "not before": a certificate whose
\* NotAfter is the current time is rejected too.
ParseKeyNotBefore(r, clock) ==
    LET parsed == ParseCertsPEM(r) IN
    IF parsed.err # NoErr THEN [ok |-> FALSE, key |-> "", err |-> parsed.err]
    ELSE IF parsed.certs[1].keyType # "RSA"
    THEN [ok |-> FALSE, key |-> "",
          err |-> [msg |-> "expected RSA public key but found",
                   found |-> parsed.certs[1].keyType, date |-> -1, item |-> ""]]
    ELSE IF ~ After(parsed.certs[1].notAfter, clock)
    THEN [ok |-> FALSE, key |-> "",
          err |-> [msg |-> "failed to encrypt using an expired certificate on",
                   found |-> "", date |-> FormatDate(parsed.certs[1].notAfter), item |-> ""]]
    ELSE [ok |-> TRUE, key |-> "RSA", err |-> NoErr]

\* ParseKey(r): the RSA public key of the first certificate of the bundle.
\* io.ReadAll of a strings.Reader does not fail.  kubeseal.ParseKey, which
\* encryptMapWrapper calls, is the library function this one is a copy of.
ParseKey(r, clock) ==
    LET parsed == ParseCertsPEM(r) IN
    IF parsed.err # NoErr THEN [ok |-> FALSE, key |-> "", err |-> parsed.err]
    ELSE IF Len(parsed.certs) = 0
    THEN [ok |-> FALSE, key |-> "", err |-> Err("failed to read any certificates")]
    ELSE IF parsed.certs[1].keyType # "RSA"
    THEN [ok |-> FALSE, key |-> "",
          err |-> [msg |-> "expected RSA public key but found",
                   found |-> parsed.certs[1].keyType, date |-> -1, item |-> ""]]
    ELSE IF After(clock, parsed.certs[1].notAfter)
    THEN [ok |-> FALSE, key |-> "",
          err |-> [msg |-> "failed to encrypt using an expired certificate on",
                   found |-> "", date |-> FormatDate(parsed.certs[1].notAfter), item |-> ""]]
    ELSE [ok |-> TRUE, key |-> "RSA", err |-> NoErr]

----------------------------------------------------------------------------
(* Labels and encryption (sealed-secrets library calls) *)

\* ssv1alpha1.EncryptionLabel(namespace, name, scope): cluster-wide (2) binds
\* nothing, namespace-wide (1) binds the namespace, strict (0) and every
\* other value bind namespace/name.  It returns no error.
EncryptionLabel(namespace, name, scope) ==
    CASE scope = 2 -> ""
      [] scope = 1 -> namespace
      [] OTHER -> namespace \o "/" \o name

\* crypto.HybridEncrypt(rand.Reader, key, plaintext, label): the framed blob
\* of the session key wrapped under key and the payload sealed under the
\* session key, both bound to label; rnd is the draw from the random source.
EncryptError == Err("crypto/rsa: message too long for RSA key size")
HybridEncrypt(rnd, key, plaintext, label, fails) ==
    IF fails
    THEN [out |-> [key |-> "", pt |-> "", label |-> "", rnd |-> 0],
          err |-> EncryptError]
    ELSE [out |-> [key |-> key, pt |-> plaintext, label |-> label, rnd |-> rnd],
          err |-> NoErr]

\* base64.StdEncoding.EncodeToString(out): the text and its length; the
\* blob holds at least its two-byte length prefix.
EncodeToString(out) ==
    [blob |-> out, len |-> 4 * ((2 + Len(out.pt) + 2) \div 3)]

\* kubeseal.EncryptSecretItem(w, secretName, ns, data, scope, pubKey): builds
\* the label from (ns, secretName, scope), encrypts and writes the base64
\* text to w.
EncryptSecretItem(rnd, secretName, ns, data, scope, pubKey, fails) ==
    LET label == EncryptionLabel(ns, secretName, scope)
        enc == HybridEncrypt(rnd, pubKey, data, label, fails)
    IN [w |-> EncodeToString(enc.out), label |-> label, err |-> enc.err]

----------------------------------------------------------------------------
(* Requests and responses of the resource handlers *)

\* A request: the plan, the outcomes of the calls the handler makes
\* (env.planGet: req.Plan.Get succeeds; env.encFail: the items whose
\* encryption fails; env.order: the order in which range visits the map;
\* env.convert: types.MapValueFrom succeeds; env.set: resp.State.Set
\* succeeds) and the state the response starts from.
Request(plan, env, state) == [plan |-> plan, env |-> env, state |-> state]

\* A response: resp.Diagnostics, resp.State, whether State.Set was called,
\* the calls made in order, and the draws taken from the random source.
Response(diags, state, setCalled, trace, rnd) ==
    [diags |-> diags, state |-> state, setCalled |-> setCalled,
     trace |-> trace, rand |-> rnd]

\* req.Plan.Get(ctx, &plan)
PlanGet(req) ==
    IF req.env.planGet THEN <<>>
    ELSE <<ErrorDiag("Value Conversion Error", "", Err("plan"))>>

\* resp.State.Set(ctx, plan) followed by resp.Diagnostics.Append(diags...)
StateSet(req, diags, plan, trace, rnd) ==
    IF req.env.set
    THEN Response(diags, [written |-> TRUE, model |-> plan], TRUE,
                  Append(trace, Event("State.Set", "", "", "")), rnd)
    ELSE Response(Append(diags, ErrorDiag("State Value Conversion Error", "", Err("state"))),
                  req.state, TRUE,
                  Append(trace, Event("State.Set", "", "", "")), rnd)

----------------------------------------------------------------------------
(* kubeseal_raw: raw_resource.go *)

rawCreate(req, clock, rnd) ==
    LET plan == req.plan
        diags == PlanGet(req)
    IN
    IF HasError(diags) THEN Response(diags, req.state, FALSE, <<>>, rnd)
    ELSE
    LET spkiKey == ParseKey(plan.pubkey, clock)
        t1 == <<Event("ParseKey", "", "", "")>>
    IN
    IF spkiKey.err # NoErr
    THEN Response(Append(diags, ErrorDiag("Error parsing pubkey", "", spkiKey.err)),
                  req.state, FALSE, t1, rnd)
    ELSE
    LET label == EncryptionLabel(plan.namespace, plan.name, plan.scope)
        enc == HybridEncrypt(rnd + 1, spkiKey.key, plan.secret, label,
                             "secret" \in req.env.encFail)
        t2 == t1 \o <<Event("EncryptionLabel", "", label, ""),
                      Event("HybridEncrypt", "secret", label, plan.secret)>>
    IN
    IF enc.err # NoErr
    THEN Response(Append(diags, ErrorDiag("Error encrypting value", "", enc.err)),
                  req.state, FALSE, t2, rnd + 1)
    ELSE
    LET sealed == EncodeToString(enc.out) IN
    IF sealed.len = 0
    THEN Response(Append(diags, ErrorDiag("Error Sealing not successful", "", NoErr)),
                  req.state, FALSE, t2, rnd + 1)
    ELSE StateSet(req, diags,
                  [plan EXCEPT !.sealed = Known(EncodeToString(enc.out)),
                               !.last_updated = Known(FormatRFC850(clock))],
                  t2, rnd + 1)

\* Update that leaves the state as it is when the plan repeats the inputs of
\* the prior state.
rawUpdateUnlessUnchanged(req, clock, rnd) ==
    IF /\ req.state.written
       /\ req.state.model.name = req.plan.name
       /\ req.state.model.namespace = req.plan.namespace
       /\ req.state.model.scope = req.plan.scope
       /\ req.state.model.pubkey = req.plan.pubkey
       /\ req.state.model.secret = req.plan.secret
    THEN Response(PlanGet(req), req.state, FALSE, <<>>, rnd)
    ELSE rawCreate(req, clock, rnd)

rawUpdate(req, clock, rnd) ==
    LET plan == req.plan
        diags == PlanGet(req)
    IN
    IF HasError(diags) THEN Response(diags, req.state, FALSE, <<>>, rnd)
    ELSE
    LET spkiKey == ParseKey(plan.pubkey, clock)
        t1 == <<Event("ParseKey", "", "", "")>>
    IN
    IF spkiKey.err # NoErr
    THEN Response(Append(diags, ErrorDiag("Error parsing pubkey", "", spkiKey.err)),
                  req.state, FALSE, t1, rnd)
    ELSE
    LET label == EncryptionLabel(plan.namespace, plan.name, plan.scope)
        enc == HybridEncrypt(rnd + 1, spkiKey.key, plan.secret, label,
                             "secret" \in req.env.encFail)
        t2 == t1 \o <<Event("EncryptionLabel", "", label, ""),
                      Event("HybridEncrypt", "secret", label, plan.secret)>>
    IN
    IF enc.err # NoErr
    THEN Response(Append(diags, ErrorDiag("Error encrypting value", "", enc.err)),
                  req.state, FALSE, t2, rnd + 1)
    ELSE
    LET sealed == EncodeToString(enc.out) IN
    IF sealed.len = 0
    THEN Response(Append(diags, ErrorDiag("Error Sealing not successful", "", NoErr)),
                  req.state, FALSE, t2, rnd + 1)
    ELSE StateSet(req, diags,
                  [plan EXCEPT !.sealed = Known(sealed),
                               !.last_updated = Known(FormatRFC850(clock))],
                  t2, rnd + 1)

----------------------------------------------------------------------------
(* kubeseal_raws: raws_resource.go *)

\* plan.Values.ElementsAs(ctx, &values, false) into a map[string]string: a
\* null element cannot be held by a Go string.
ElementsAs(values) ==
    IF \E k \in DOMAIN values : values[k] = Null
    THEN <<ErrorDiag("Value Conversion Error", "", Err("unhandled null value"))>>
    ELSE <<>>

\* types.MapValueFrom(ctx, types.StringType, sealedValues)
MapValueFrom(sealedValues, ok) ==
    IF ok THEN [value |-> Known(sealedValues), diags |-> <<>>]
    ELSE [value |-> Unknown,
          diags |-> <<ErrorDiag("Value Conversion Error", "", Err("map"))>>]

EmptyMap == [k \in {} |-> ""]

\* sealedValues[key] = v written as a fresh map of the one entry.
MapSetAlone(m, key, v) == [k \in {key} |-> v]

\* sealedValues[key] = v
MapSet(m, key, v) == [k \in DOMAIN m \cup {key} |-> IF k = key THEN v ELSE m[k]]

\* The loop body with the public key parsed again for every item.
encryptItemParsing(key, plan, values, pubKey, encFail, acc) ==
    LET value == values[key]
        item == EncryptSecretItem(acc.rand + 1, plan.name, plan.namespace, value,
                                  plan.scope, pubKey, key \in encFail)
        trace == acc.trace \o <<Event("ParseKey", "", "", ""),
                                Event("EncryptSecretItem", key, item.label, value)>>
    IN
    IF item.err # NoErr
    THEN [acc EXCEPT !.returned = TRUE,
                     !.err = item.err,
                     !.diagnostics = Append(@, ErrorDiag("Error encrypting secret item",
                                                         key, item.err)),
                     !.trace = trace,
                     !.rand = @ + 1]
    ELSE [acc EXCEPT !.sealedValues = MapSet(@, key, item.w),
                     !.err = item.err,
                     !.trace = trace,
                     !.rand = @ + 1]

\* The loop body with the namespace passed where the name is expected and
\* the name where the namespace is.
encryptItemSwapped(key, plan, values, pubKey, encFail, acc) ==
    LET value == values[key]
        item == EncryptSecretItem(acc.rand + 1, plan.namespace, plan.name, value,
                                  plan.scope, pubKey, key \in encFail)
        trace == Append(acc.trace, Event("EncryptSecretItem", key, item.label, value))
    IN
    IF item.err # NoErr
    THEN [acc EXCEPT !.returned = TRUE,
                     !.err = item.err,
                     !.diagnostics = Append(@, ErrorDiag("Error encrypting secret item",
                                                         key, item.err)),
                     !.trace = trace,
                     !.rand = @ + 1]
    ELSE [acc EXCEPT !.sealedValues = MapSet(@, key, item.w),
                     !.err = item.err,
                     !.trace = trace,
                     !.rand = @ + 1]

\* The body of the range loop of encryptMapWrapper for one item: encrypt the
\* value into a fresh buffer; on an error add the diagnostic and return from
\* the function, else store the buffer's text under the item's key.  acc
\* carries sealedValues, err, diagnostics, the calls made and the draws taken.
encryptItem(key, plan, values, pubKey, encFail, acc) ==
    LET value == values[key]
        item == EncryptSecretItem(acc.rand + 1, plan.name, plan.namespace, value,
                                  plan.scope, pubKey, key \in encFail)
        trace == Append(acc.trace, Event("EncryptSecretItem", key, item.label, value))
    IN
    IF item.err # NoErr
    THEN [acc EXCEPT !.returned = TRUE,
                     !.err = item.err,
                     !.diagnostics = Append(@, ErrorDiag("Error encrypting secret item",
                                                         key, item.err)),
                     !.trace = trace,
                     !.rand = @ + 1]
    ELSE [acc EXCEPT !.sealedValues = MapSet(@, key, item.w),
                     !.err = item.err,
                     !.trace = trace,
                     !.rand = @ + 1]

\* The range loop over values, visited in the order `order`.
RECURSIVE encryptLoop(_, _, _, _, _, _)
encryptLoop(order, plan, values, pubKey, encFail, acc) ==
    IF order = <<>> \/ acc.returned THEN acc
    ELSE encryptLoop(Tail(order), plan, values, pubKey, encFail,
                     encryptItem(Head(order), plan, values, pubKey, encFail, acc))

\* encryptMapWrapper(plan, diagnostics): diagnostics is the caller's slice
\* passed by value, so what is appended here stays in the callee's copy; the
\* result carries that copy as `diagnostics` beside the two values returned,
\* `plan` and `err`.
encryptMapWrapper(plan, diagnostics, env, clock, rnd) ==
    LET pubKey == ParseKey(plan.pubkey, clock)
        t1 == <<Event("ParseKey", "", "", "")>>
    IN
    IF pubKey.err # NoErr
    THEN [plan |-> plan, err |-> pubKey.err,
          diagnostics |-> Append(diagnostics,
                                 ErrorDiag("Error parsing pubkey", "", pubKey.err)),
          trace |-> t1, rand |-> rnd]
    ELSE
    LET err0 == pubKey.err
        diags == ElementsAs(plan.values)
        t2 == Append(t1, Event("ElementsAs", "", "", ""))
    IN
    IF HasError(diags)
    THEN [plan |-> plan, err |-> err0, diagnostics |-> diagnostics \o diags,
          trace |-> t2, rand |-> rnd]
    ELSE
    LET loop == encryptLoop(env.order, plan, plan.values, pubKey.key, env.encFail,
                            [returned |-> FALSE, sealedValues |-> EmptyMap, err |-> err0,
                             diagnostics |-> diagnostics, trace |-> t2, rand |-> rnd])
        t3 == Append(loop.trace, Event("MapValueFrom", "", "", ""))
    IN
    IF loop.returned
    THEN [plan |-> plan, err |-> loop.err, diagnostics |-> loop.diagnostics,
          trace |-> loop.trace, rand |-> loop.rand]
    ELSE
    LET sealedMap == MapValueFrom(loop.sealedValues, env.convert) IN
    IF HasError(sealedMap.diags)
    THEN [plan |-> plan, err |-> loop.err,
          diagnostics |-> loop.diagnostics \o sealedMap.diags,
          trace |-> t3, rand |-> loop.rand]
    ELSE [plan |-> [plan EXCEPT !.sealed = sealedMap.value,
                                !.last_updated = Known(FormatRFC850(clock))],
          err |-> NoErr, diagnostics |-> loop.diagnostics,
          trace |-> t3, rand |-> loop.rand]

rawsCreate(req, clock, rnd) ==
    LET diags == PlanGet(req) IN
    IF HasError(diags) THEN Response(diags, req.state, FALSE, <<>>, rnd)
    ELSE
    LET r == encryptMapWrapper(req.plan, diags, req.env, clock, rnd) IN
    IF r.err # NoErr THEN Response(diags, req.state, FALSE, r.trace, r.rand)
    ELSE StateSet(req, diags, r.plan, r.trace, r.rand)

rawsUpdate(req, clock, rnd) ==
    LET diags == PlanGet(req) IN
    IF HasError(diags) THEN Response(diags, req.state, FALSE, <<>>, rnd)
    ELSE
    LET r == encryptMapWrapper(req.plan, diags, req.env, clock, rnd) IN
    IF r.err # NoErr THEN Response(diags, req.state, FALSE, r.trace, r.rand)
    ELSE StateSet(req, diags, r.plan, r.trace, r.rand)

----------------------------------------------------------------------------
(* The provider: provider.go *)

\* terraformKubeseal.Resources: the constructors the provider registers.
Resources == <<"NewRawResource">>

\* The type name each constructor's resource reports from Metadata, for the
\* provider type name "kubeseal".
TypeName(constructor) ==
    CASE constructor = "NewRawResource" -> "kubeseal" \o "_raw"
      [] constructor = "NewRawsResource" -> "kubeseal" \o "_raws"

\* The validators the schema of each resource puts on "scope":
\* kubeseal_raws has int32validator.Between(0, 2), kubeseal_raw has none.
ScopeValidators(kind) ==
    IF kind = "kubeseal_raws" THEN {[min |-> 0, max |-> 2]} ELSE {}

SchemaDiags(kind, plan) ==
    IF \E v \in ScopeValidators(kind) : plan.scope < v.min \/ plan.scope > v.max
    THEN <<ErrorDiag("Invalid Attribute Value", "scope", Err("value must be between"))>>
    ELSE <<>>

----------------------------------------------------------------------------------------------------------------------------------------
(* Inputs *)

Names == {"example"}
Namespaces == {"default"}
Scopes == (0 - MinScope) .. MaxScope
ItemKeys == {"a", "b"}
PlainOf(k) == IF k = "a" THEN "secret1" ELSE "secret2"

\* The maps a "values" attribute holds: no item, one item, two items, and
\* two items of which one is null.
ValueMaps ==
    {[k \in K |-> IF k \in N THEN Null ELSE PlainOf(k)] :
        <<K, N>> \in {<<{}, {}>>, <<{"a"}, {}>>, <<ItemKeys, {}>>, <<ItemKeys, {"b"}>>}}

RawPlans ==
    [name : Names, namespace : Namespaces, secret : {"very_secret_secret"},
     scope : Scopes, pubkey : PubKeys, sealed : {Unknown}, last_updated : {Unknown}]

RawsPlans ==
    [name : Names, namespace : Namespaces, values : ValueMaps,
     scope : Scopes, pubkey : PubKeys, sealed : {Unknown}, last_updated : {Unknown}]

Plans(kind) == IF kind = "kubeseal_raw" THEN RawPlans ELSE RawsPlans

\* The items of a plan and the orders in which a range loop may visit them.
Items(kind, plan) == IF kind = "kubeseal_raw" THEN {"secret"} ELSE DOMAIN plan.values
Orders(S) == {o \in [1..Cardinality(S) -> S] : \A i, j \in DOMAIN o : i # j => o[i] # o[j]}

\* The outcomes a call can meet: any set of items fails to encrypt (the
\* random source fails, or the RSA key is too short for the session key) and
\* the range loop visits the items in any order.  The conversions between
\* the plan, the state and Go values of matching types (Plan.Get,
\* MapValueFrom of a map of strings, State.Set) succeed.
Envs(kind, plan) ==
    [planGet : {TRUE}, encFail : SUBSET Items(kind, plan),
     order : IF kind = "kubeseal_raw" THEN {<<>>} ELSE Orders(Items(kind, plan)),
     convert : {TRUE}, set : {TRUE}]

\* Both resource types are driven through their handlers, as the framework
\* drives any resource whose constructor it is given; which constructors the
\* provider hands over is recorded separately by GetResources.
Kinds == {"kubeseal_raw", "kubeseal_raws"}

----------------------------------------------------------------------------
(* The state machine *)

Init ==
    /\ now = 0
    /\ rand = 0
    /\ planned = NoPlan
    /\ tfstate = NullState
    /\ last = [op |-> "none"]
    /\ resources = [asked |-> FALSE]

Call(op, kind, req, resp, clock) ==
    [op |-> op, kind |-> kind, req |-> req, resp |-> resp, clock |-> clock, rand |-> rand]

\* The stored state of the instance: resp.State of the last Create or Update
\* beside the resource type it belongs to; and the state a request carries.
Stored(kind, state) ==
    IF state.written THEN [written |-> TRUE, kind |-> kind, model |-> state.model]
    ELSE NullState
StateOf(stored) ==
    IF stored.written THEN [written |-> TRUE, model |-> stored.model] ELSE NullState

\* The provider is asked for its resources, before any resource is used.
GetResources ==
    /\ ~ resources.asked
    /\ resources' = [asked |-> TRUE, list |-> Resources]
    /\ UNCHANGED <<now, rand, planned, tfstate, last>>

\* The framework validates a configuration against the schema of its
\* resource and rejects it.
ValidateConfig ==
    /\ resources.asked
    /\ planned = NoPlan
    /\ \E kind \in Kinds : \E plan \in Plans(kind) :
        /\ tfstate.written => tfstate.kind = kind
        /\ HasError(SchemaDiags(kind, plan))
        /\ last' = Call("Validate", kind,
                        Request(plan, [planGet |-> TRUE], StateOf(tfstate)),
                        Response(SchemaDiags(kind, plan), StateOf(tfstate), FALSE, <<>>, rand),
                        now)
    /\ UNCHANGED <<now, rand, planned, tfstate, resources>>

\* A configuration that passed validation is planned.
PlanResourceChange ==
    /\ resources.asked
    /\ planned = NoPlan
    /\ \E kind \in Kinds : \E plan \in Plans(kind) :
        /\ tfstate.written => tfstate.kind = kind
        /\ ~ HasError(SchemaDiags(kind, plan))
        /\ rand + Cardinality(Items(kind, plan)) <= MaxDraws
        /\ planned' = [planned |-> TRUE, kind |-> kind, plan |-> plan]
        /\ last' = [op |-> "Plan"]
    /\ UNCHANGED <<now, rand, tfstate, resources>>

\* The planned Create is applied, at some time not before the latest clock
\* reading; the response starts from the null state.
Create ==
    /\ planned # NoPlan
    /\ ~ tfstate.written
    /\ \E clock \in now .. MaxTime : \E env \in Envs(planned.kind, planned.plan) :
        LET req == Request(planned.plan, env, NullState)
            resp == IF planned.kind = "kubeseal_raw" THEN rawCreate(req, clock, rand)
                    ELSE rawsCreate(req, clock, rand)
        IN last' = Call("Create", planned.kind, req, resp, clock)
    /\ tfstate' = Stored(planned.kind, last'.resp.state)
    /\ rand' = last'.resp.rand
    /\ now' = last'.clock
    /\ planned' = NoPlan
    /\ UNCHANGED resources

\* The planned Update is applied, at some time not before the latest clock
\* reading; the response starts from the prior state.
Update ==
    /\ planned # NoPlan
    /\ tfstate.written
    /\ \E clock \in now .. MaxTime : \E env \in Envs(planned.kind, planned.plan) :
        LET req == Request(planned.plan, env, StateOf(tfstate))
            resp == IF planned.kind = "kubeseal_raw" THEN rawUpdate(req, clock, rand)
                    ELSE rawsUpdate(req, clock, rand)
        IN last' = Call("Update", planned.kind, req, resp, clock)
    /\ tfstate' = Stored(planned.kind, last'.resp.state)
    /\ rand' = last'.resp.rand
    /\ now' = last'.clock
    /\ planned' = NoPlan
    /\ UNCHANGED resources

\* Read is a no-op in both resources: the state is returned as it was.
Read ==
    /\ planned = NoPlan
    /\ tfstate.written
    /\ last.op # "Read"
    /\ last' = [op |-> "Read"]
    /\ UNCHANGED <<now, rand, planned, tfstate, resources>>

\* Delete is a no-op in both resources; with no error returned the framework
\* removes the state.
Delete ==
    /\ planned = NoPlan
    /\ tfstate.written
    /\ last' = [op |-> "Delete"]
    /\ tfstate' = NullState
    /\ UNCHANGED <<now, rand, planned, resources>>

Next ==
    \/ GetResources
    \/ ValidateConfig
    \/ PlanResourceChange
    \/ Create
    \/ Update
    \/ Read
    \/ Delete

Spec == Init /\ [][Next]_vars

----------------------------------------------------------------------------
(* What the last call shows *)

IsSeal == last.op \in {"Create", "Update"}
\* a Create or Update that obtained its plan
Got == IsSeal /\ last.req.env.planGet

TraceCalls(calls) ==
    {i \in 1..Len(last.resp.trace) : last.resp.trace[i].call \in calls}
ParseCalls == TraceCalls({"ParseKey"})
EncryptCalls == TraceCalls({"HybridEncrypt", "EncryptSecretItem"})
LabelCalls == TraceCalls({"EncryptionLabel", "HybridEncrypt", "EncryptSecretItem"})

FirstCert == last.req.plan.pubkey.certs[1]
HasCert == last.req.plan.pubkey.pem = "certificates" /\ Len(last.req.plan.pubkey.certs) > 0
KeyResult == ParseKey(last.req.plan.pubkey, last.clock)
ExpiredMsg == "failed to encrypt using an expired certificate on"

\* The steps of sealing that failed in the last call.
KeyFailed == Got /\ KeyResult.err # NoErr
ExtractFailed ==
    /\ Got /\ last.kind = "kubeseal_raws" /\ ~ KeyFailed
    /\ \E k \in DOMAIN last.req.plan.values : last.req.plan.values[k] = Null
EncryptFailed ==
    Got /\ \E i \in EncryptCalls : last.resp.trace[i].item \in last.req.env.encFail
ConvertFailed ==
    Got /\ ~ last.req.env.convert /\ TraceCalls({"MapValueFrom"}) # {}
SealFailed == KeyFailed \/ ExtractFailed \/ EncryptFailed \/ ConvertFailed

\* The error of the step that failed.
Cause ==
    IF KeyFailed THEN KeyResult.err
    ELSE IF ExtractFailed THEN Err("unhandled null value")
    ELSE IF EncryptFailed THEN EncryptError
    ELSE Err("map")

\* What encryptMapWrapper returned to the handler in the last call.
WrapperResult ==
    encryptMapWrapper(last.req.plan, PlanGet(last.req), last.req.env, last.clock, last.rand)

\* The state the last call wrote, if it wrote one.
Wrote == IsSeal /\ last.resp.setCalled /\ last.req.env.set
Written == last.resp.state.model

----------------------------------------------------------------------------
(* C1 *)

\* C1: a Create or Update (or the validation before it) of either resource
\* with a scope outside {0,1,2} ends with an error, builds no label, encrypts
\* nothing and writes no state.
C1_OutOfRangeScopeRejected ==
    (last.op \in {"Validate", "Create", "Update"} /\ last.req.plan.scope \notin 0..2)
    => /\ HasError(last.resp.diags)
       /\ LabelCalls = {}
       /\ ~ last.resp.setCalled

(* C2 *)

\* C2: when a step of sealing failed (key parsing, extraction of the values,
\* encryption of an item, conversion of the sealed map), State.Set was not
\* called.
C2_NoStateAfterFailure ==
    SealFailed => ~ last.resp.setCalled

(* C3 *)

\* C3: when a step of sealing failed, the response diagnostics hold an error
\* entry carrying the error of that step.
C3_FailureInDiagnostics ==
    SealFailed =>
        \E i \in 1..Len(last.resp.diags) :
            /\ last.resp.diags[i].severity = "error"
            /\ last.resp.diags[i].err = Cause

(* C4 *)

\* C4: in a multi-value seal in which an item fails to encrypt, the failing
\* item is the last one encrypted, the error returned (the error value of
\* encryptMapWrapper, or an error entry of the response diagnostics) names
\* the item and carries the cause, and the returned model's sealed map is not
\* populated.
C4_FirstFailureAborts ==
    (EncryptFailed /\ last.kind = "kubeseal_raws") =>
        \E f \in EncryptCalls :
            /\ last.resp.trace[f].item \in last.req.env.encFail
            /\ \A i \in EncryptCalls : i <= f
            /\ \/ /\ WrapperResult.err.item = last.resp.trace[f].item
                  /\ WrapperResult.err.msg = EncryptError.msg
               \/ \E d \in 1..Len(last.resp.diags) :
                     /\ last.resp.diags[d].key = last.resp.trace[f].item
                     /\ last.resp.diags[d].err = EncryptError
            /\ WrapperResult.plan.sealed = Unknown
            /\ ~ last.resp.setCalled

(* C5 *)

\* C5: when every step of a multi-value seal succeeded and the state was
\* written, the sealed map has exactly the keys of the values map, each key
\* holds the ciphertext made from that key's own plaintext, and last_updated
\* is the formatted time of the call.
C5_SealedMapComplete ==
    (Got /\ last.kind = "kubeseal_raws" /\ Wrote /\ ~ SealFailed) =>
        /\ last.resp.state.written
        /\ Written.sealed.known
        /\ DOMAIN Written.sealed.val = DOMAIN last.req.plan.values
        /\ \A k \in DOMAIN last.req.plan.values :
               Written.sealed.val[k].blob.pt = last.req.plan.values[k]
        /\ Written.last_updated = Known(FormatRFC850(last.clock))

C5_Witness ==
    /\ Got /\ last.kind = "kubeseal_raws" /\ Wrote /\ ~ SealFailed
    /\ DOMAIN last.req.plan.values = ItemKeys
    /\ DOMAIN Written.sealed.val = ItemKeys
    /\ Written.sealed.val["a"].blob.pt = "secret1"
    /\ Written.sealed.val["b"].blob.pt = "secret2"

(* C6 *)

\* C6: a seal call parses the public key exactly once, as its first call and
\* so before any item is encrypted, whatever the number of items; when the
\* parsing fails no label is built and no item is encrypted.
C6_KeyParsedOnce ==
    Got => /\ ParseCalls = {1}
           /\ \A i \in EncryptCalls : \E j \in ParseCalls : j < i
           /\ KeyFailed => LabelCalls = {}

C6_Witness ==
    /\ Got /\ last.kind = "kubeseal_raws"
    /\ Cardinality(EncryptCalls) = 2
    /\ ParseCalls = {1}

(* C7 *)

\* C7 as claimed: ParseKey (called by kubeseal_raw) on every bundle whose
\* first certificate has NotAfter before the current time fails with the
\* expired-certificate error.
C7_AnyExpiredCertificate ==
    (Got /\ last.kind = "kubeseal_raw" /\ HasCert /\ FirstCert.notAfter < last.clock) =>
        /\ KeyResult.err.msg = ExpiredMsg
        /\ KeyResult.err.date = FormatDate(FirstCert.notAfter)

\* C7 amended: ParseKey on a bundle whose first certificate holds an RSA public key and
\* has NotAfter before the current time fails with the expired-certificate
\* error, which carries the expiry date; with NotAfter at or after the
\* current time it is not rejected as expired (an RSA key is then returned).
\* kubeseal_raw reports the error of ParseKey in its diagnostics.
C7_ExpiredRsaCertificate ==
    (Got /\ last.kind = "kubeseal_raw" /\ HasCert) =>
        /\ (FirstCert.keyType = "RSA" /\ FirstCert.notAfter < last.clock) =>
              /\ KeyResult.err.msg = ExpiredMsg
              /\ KeyResult.err.date = FormatDate(FirstCert.notAfter)
              /\ \E i \in 1..Len(last.resp.diags) : last.resp.diags[i].err = KeyResult.err
        /\ FirstCert.notAfter >= last.clock =>
              /\ KeyResult.err.msg # ExpiredMsg
              /\ FirstCert.keyType = "RSA" => KeyResult.ok
              /\ \A i \in 1..Len(last.resp.diags) : last.resp.diags[i].err.msg # ExpiredMsg

C7_Witness ==
    /\ Got /\ HasCert /\ last.kind = "kubeseal_raw"
    /\ FirstCert.keyType = "RSA" /\ FirstCert.notAfter < last.clock
    /\ \E i \in 1..Len(last.resp.diags) : last.resp.diags[i].err.msg = ExpiredMsg

(* C8 *)

ExpectedLabel ==
    IF last.req.plan.scope = 0
    THEN last.req.plan.namespace \o "/" \o last.req.plan.name
    ELSE IF last.req.plan.scope = 1 THEN last.req.plan.namespace
    ELSE ""

\* C8: with a scope of 0, 1 or 2 every label built and every label passed to
\* encryption in a seal call is namespace/name, namespace or empty according
\* to the scope, the same for every item; the seals written carry that label.
C8_LabelByScope ==
    (Got /\ last.req.plan.scope \in 0..2) =>
        /\ \A i \in LabelCalls : last.resp.trace[i].label = ExpectedLabel
        /\ (Wrote /\ last.resp.state.written /\ Written.sealed.known) =>
              IF last.kind = "kubeseal_raw"
              THEN Written.sealed.val.blob.label = ExpectedLabel
              ELSE \A k \in DOMAIN Written.sealed.val :
                      Written.sealed.val[k].blob.label = ExpectedLabel

C8_Witness ==
    /\ Got /\ last.kind = "kubeseal_raws" /\ last.req.plan.scope = 1
    /\ Cardinality(EncryptCalls) = 2
    /\ \A i \in EncryptCalls : last.resp.trace[i].label = "default"

(* C9 *)

\* C9: the response of a Create is the response Update gives to the same
\* request at the same time and with the same draws, and the response of an
\* Update is the response Create gives: the same diagnostics, the same state,
\* the same calls made, also when the plan repeats the inputs of the prior
\* state.
C9_CreateUpdateSame ==
    IsSeal =>
        last.resp =
            IF last.kind = "kubeseal_raw"
            THEN IF last.op = "Create" THEN rawUpdate(last.req, last.clock, last.rand)
                 ELSE rawCreate(last.req, last.clock, last.rand)
            ELSE IF last.op = "Create" THEN rawsUpdate(last.req, last.clock, last.rand)
                 ELSE rawsCreate(last.req, last.clock, last.rand)

Inputs(kind, model) ==
    IF kind = "kubeseal_raw"
    THEN <<model.name, model.namespace, model.scope, model.pubkey, model.secret>>
    ELSE <<model.name, model.namespace, model.scope, model.pubkey, model.values>>

C9_Witness ==
    /\ last.op = "Update" /\ Got /\ Wrote
    /\ last.req.state.written
    /\ Inputs(last.kind, last.req.plan) = Inputs(last.kind, last.req.state.model)
    /\ EncryptCalls # {}
    /\ last.resp.state.written
    /\ Written.sealed.known

(* C10 *)

\* C10: the list returned by the provider's Resources holds the constructor
\* of kubeseal_raw and the constructor of kubeseal_raws.
C10_BothResourcesRegistered ==
    resources.asked =>
        {"kubeseal_raw", "kubeseal_raws"} \subseteq
            {TypeName(resources.list[i]) : i \in 1..Len(resources.list)}

====
